---- MODULE Spec2Model ----
(***************************************************************************)
(* Model of the bookings service of the smart meeting room system:         *)
(* src/services/bookings_service/app.py (the request handlers) and         *)
(* src/services/bookings_service/db.py (the store adapter).                *)
(*                                                                         *)
(* Every request handler is a sequence of steps; each step is one access   *)
(* of the store (one connection, one transaction in db.py) together with   *)
(* the local computation that follows it up to the next access.  Steps of  *)
(* different requests interleave freely, as they do under a threaded or    *)
(* multi-process server.  Time is a discrete clock that only moves         *)
(* forward; an ISO-8601 string is represented by the instant it denotes.   *)
(***************************************************************************)
EXTENDS Integers, FiniteSets, Sequences, TLC

VARIABLES bookings, rooms, nextId, now, req, room_status_cache, reads,
          email_log, room_cache_by_id

vars == <<bookings, rooms, nextId, now, req, room_status_cache, reads,
          email_log, room_cache_by_id>>

----------------------------------------------------------------------------
(* Bounds of the model *)

MaxTime == 3
MaxNow == 1
DayLen == 4
MaxTicks == 3
StatusCacheTtl == 2
MaxBookingId == 3

----------------------------------------------------------------------------
(* Values *)

None == -1
Unparseable == -2
AwareTag == 100

Procs == {1, 2}
Users == {1, 2}
Roles == {"regular", "admin", "facility_manager", "moderator", "auditor",
          "service_account"}
InitialRooms == {1, 2}

Times == 0..MaxTime

NoAuth == [sub |-> None, role |-> "none"]
Payloads == {NoAuth} \cup [sub : Users, role : Roles]

RoomInputs == {None, 0} \cup InitialRooms \cup {3}
TimeInputs == {None, Unparseable} \cup Times
BookingIdInputs == {1, 2, 3}

NoRow == [booking_id |-> None, user_id |-> None, room_id |-> None,
          start_time |-> None, end_time |-> None, created_at |-> None]

(* A worker: where it is in the handler (pc), the handler's locals that a
   later step reads, and, once pc = "done", the response. *)
Idle == [pc |-> "idle", kind |-> "none", booking_id |-> None, user_id |-> None,
         row |-> NoRow,
         room_id |-> None, start_time |-> None, end_time |-> None,
         final_room_id |-> None, final_start |-> None, final_end |-> None,
         status |-> 0, details |-> ""]

----------------------------------------------------------------------------
(* common/RBAC.py *)

(* Faulty variant: the facility manager is let through as well. *)
is_admin_or_facility_manager(payload) == payload.role \in {"admin", "facility_manager"}

is_admin(payload) == payload.role = "admin"

is_human_user(payload) ==
    payload.role \in {"regular", "admin", "facility_manager", "moderator", "auditor"}

read_only(payload) == payload.role \in {"auditor", "regular"}

is_admin_or_facility(payload) == payload.role \in {"admin", "facility_manager"}

is_auditor(payload) == payload.role = "auditor"

----------------------------------------------------------------------------
(* bookings_service/app.py: helpers *)

parse_ok(value) == value # Unparseable

(* datetime.fromisoformat gives an aware datetime for a string that carries
   an offset and a naive one otherwise.  An aware value is represented by
   its instant plus AwareTag.  Python refuses to order an aware and a naive
   datetime: the comparison raises TypeError. *)
tz_aware(value) == value >= AwareTag

utc_instant(value) == IF tz_aware(value) THEN value - AwareTag ELSE value

comparison_raises(a, b) == tz_aware(a) # tz_aware(b)

(* Faulty variant: a booking that starts exactly now is let through. *)
ensure_future_start_or_now(start_time) == utc_instant(start_time) >= now

ensure_future_start(start_time) == utc_instant(start_time) > now

(* Faulty variant: an empty interval is let through. *)
end_before_start(start_time, end_time) == end_time < start_time

(* The test of lines 157, 373 and 607: end_time <= start_time. *)
end_not_after_start(start_time, end_time) == end_time <= start_time

(* A response of the service: the handler has returned, or has raised
   SmartRoomExceptions(status, error, details), or an exception that no
   handler catches has escaped (500).  booking_id is the id in the URL of an
   update or a delete and the id of the row a create has inserted. *)
Response(kind, booking_id, status, details) ==
    [Idle EXCEPT !.pc = "done", !.kind = kind, !.booking_id = booking_id,
                 !.status = status, !.details = details]

(* The notification that follows a commit (lines 180-240, 408-473 and
   509-569): what the step meets.  The contact row is missing, the email is
   missing, the sender returns 202 or another status, the sender raises
   EmailConfigurationError, or the sender raises another exception. *)
NotificationOutcomes ==
    {"contact_missing", "email_missing", "status_202", "status_other",
     "configuration_error", "sender_exception"}

NoEmail == [p \in Procs |-> "none"]

(* Faulty variant: the call of the sender is not guarded, and what the
   sender raises leaves the handler. *)
notify_unguarded(outcome) ==
    [raised |-> outcome \in {"configuration_error", "sender_exception"},
     logged |-> outcome]

(* The notification step: every outcome is logged, none is raised. *)
notify(outcome) == [raised |-> FALSE, logged |-> outcome]

----------------------------------------------------------------------------
(* bookings_service/db.py: queries *)

fetch_booking(booking_id) ==
    IF \E b \in bookings : b.booking_id = booking_id
    THEN CHOOSE b \in bookings : b.booking_id = booking_id
    ELSE NoRow

room_exists(room_id) == room_id \in rooms

(* Faulty variant: intervals that touch count as overlapping. *)
has_conflict_closed(room_id, start_time, end_time, exclude_booking_id) ==
    \E b \in bookings :
        /\ b.room_id = room_id
        /\ b.booking_id # exclude_booking_id
        /\ ~(b.end_time < start_time \/ b.start_time > end_time)

(* Faulty variant: only a booking that holds the new start is a conflict. *)
has_conflict_start_only(room_id, start_time, end_time, exclude_booking_id) ==
    \E b \in bookings :
        /\ b.room_id = room_id
        /\ b.booking_id # exclude_booking_id
        /\ b.start_time <= start_time /\ start_time < b.end_time

(* Faulty variant: the booking under update is not excluded. *)
has_conflict_no_exclusion(room_id, start_time, end_time, exclude_booking_id) ==
    \E b \in bookings :
        /\ b.room_id = room_id
        /\ ~(b.end_time <= start_time \/ b.start_time >= end_time)

has_conflict(room_id, start_time, end_time, exclude_booking_id) ==
    IF exclude_booking_id = None
    THEN \E b \in bookings :
            /\ b.room_id = room_id
            /\ ~(b.end_time <= start_time \/ b.start_time >= end_time)
    ELSE \E b \in bookings :
            /\ b.room_id = room_id
            /\ b.booking_id # exclude_booking_id
            /\ ~(b.end_time <= start_time \/ b.start_time >= end_time)

(* The constraints of the bookings table: chk_booking_time and the foreign
   key on rooms.  A row that violates one makes the statement raise and the
   transaction roll back. *)
(* Faulty variant: the table has no CHECK constraint. *)
chk_booking_time_absent(row) == TRUE

chk_booking_time(row) == row.start_time < row.end_time

(* Faulty variant: the table has no foreign key on rooms. *)
fk_room_absent(row) == TRUE

fk_room(row) == row.room_id \in rooms

----------------------------------------------------------------------------
(* bookings_service/db.py: statements that write.  Each takes the store as
   it is when the statement runs and gives the row returned (NoRow for
   None), whether the statement raised (a constraint was violated and the
   transaction rolled back), and the rows of the table afterwards. *)

(* Faulty variant: the id is one more than the greatest stored id instead
   of the next value of the sequence. *)
create_booking_max_id(user_id, room_id, start_time, end_time) ==
    LET ids == {b.booking_id : b \in bookings}
        id == IF ids = {} THEN 1
              ELSE (CHOOSE i \in ids : \A j \in ids : j <= i) + 1
        row == [booking_id |-> id, user_id |-> user_id, room_id |-> room_id,
                start_time |-> start_time, end_time |-> end_time,
                created_at |-> now]
    IN  IF chk_booking_time(row) /\ fk_room(row)
        THEN [raised |-> FALSE, row |-> row, rows |-> bookings \cup {row}]
        ELSE [raised |-> TRUE, row |-> NoRow, rows |-> bookings]

create_booking(user_id, room_id, start_time, end_time) ==
    LET row == [booking_id |-> nextId, user_id |-> user_id, room_id |-> room_id,
                start_time |-> start_time, end_time |-> end_time,
                created_at |-> now]
    IN  IF chk_booking_time(row) /\ fk_room(row)
        THEN [raised |-> FALSE, row |-> row, rows |-> bookings \cup {row}]
        ELSE [raised |-> TRUE, row |-> NoRow, rows |-> bookings]

(* Faulty variant: a new start carries the end along, keeping the length of
   the booking, when the end is not supplied. *)
update_booking_times_shift(booking_id, room_id, start_time, end_time) ==
    LET old == fetch_booking(booking_id)
        new == [old EXCEPT
                  !.room_id = IF room_id # None THEN room_id ELSE @,
                  !.start_time = IF start_time # None THEN start_time ELSE @,
                  !.end_time = IF end_time # None THEN end_time
                               ELSE IF start_time # None
                               THEN @ + (start_time - old.start_time)
                               ELSE @]
    IN  IF room_id = None /\ start_time = None /\ end_time = None
        THEN [raised |-> FALSE, row |-> NoRow, rows |-> bookings]
        ELSE IF old = NoRow
        THEN [raised |-> FALSE, row |-> NoRow, rows |-> bookings]
        ELSE IF chk_booking_time(new) /\ fk_room(new)
        THEN [raised |-> FALSE, row |-> new,
              rows |-> (bookings \ {old}) \cup {new}]
        ELSE [raised |-> TRUE, row |-> NoRow, rows |-> bookings]

(* Faulty variant: an update of a row that is gone puts a row back
   (INSERT ... ON CONFLICT DO UPDATE). *)
update_booking_times_upsert(booking_id, room_id, start_time, end_time) ==
    LET old == fetch_booking(booking_id)
        new == [old EXCEPT
                  !.booking_id = booking_id,
                  !.room_id = IF room_id # None THEN room_id ELSE @,
                  !.start_time = IF start_time # None THEN start_time ELSE @,
                  !.end_time = IF end_time # None THEN end_time ELSE @]
    IN  IF room_id = None /\ start_time = None /\ end_time = None
        THEN [raised |-> FALSE, row |-> NoRow, rows |-> bookings]
        ELSE [raised |-> FALSE, row |-> new,
              rows |-> (bookings \ {old}) \cup {new}]

update_booking_times(booking_id, room_id, start_time, end_time) ==
    LET old == fetch_booking(booking_id)
        new == [old EXCEPT
                  !.room_id = IF room_id # None THEN room_id ELSE @,
                  !.start_time = IF start_time # None THEN start_time ELSE @,
                  !.end_time = IF end_time # None THEN end_time ELSE @]
    IN  IF room_id = None /\ start_time = None /\ end_time = None
        THEN [raised |-> FALSE, row |-> NoRow, rows |-> bookings]
        ELSE IF old = NoRow
        THEN [raised |-> FALSE, row |-> NoRow, rows |-> bookings]
        ELSE IF chk_booking_time(new) /\ fk_room(new)
        THEN [raised |-> FALSE, row |-> new,
              rows |-> (bookings \ {old}) \cup {new}]
        ELSE [raised |-> TRUE, row |-> NoRow, rows |-> bookings]

(* Faulty variant: the statement reports one row whether or not it found
   one. *)
delete_booking_rowcount_one(booking_id) ==
    LET old == fetch_booking(booking_id)
    IN  [rowcount |-> 1, rows |-> bookings \ {old}]

delete_booking(booking_id) ==
    LET old == fetch_booking(booking_id)
    IN  IF old = NoRow
        THEN [rowcount |-> 0, rows |-> bookings]
        ELSE [rowcount |-> 1, rows |-> bookings \ {old}]

----------------------------------------------------------------------------
(* create_booking_endpoint *)

(* Lines 129-136: authentication and the role check. *)
create_booking_auth(payload) ==
    IF payload = NoAuth
    THEN Response("create", None, 401, "Make sure your token is valid and not expired.")
    ELSE IF ~is_human_user(payload)
    THEN Response("create", None, 403, "Service accounts cannot create bookings.")
    ELSE [Idle EXCEPT !.pc = "body", !.kind = "create", !.user_id = payload.sub]

create_booking_endpoint(p, payload) ==
    /\ req[p].pc = "idle"
    /\ req' = [req EXCEPT ![p] = create_booking_auth(payload)]
    /\ UNCHANGED <<room_cache_by_id, email_log, bookings, rooms, nextId, now, room_status_cache, reads>>

(* Faulty variant: the existence of the room is checked before the
   interval and the future start. *)
create_booking_validate_room_first(user_id, data) ==
    IF data.room_id = None \/ data.start_time = None \/ data.end_time = None
    THEN Response("create", None, 400, "room_id, start_time, and end_time are required.")
    ELSE IF data.room_id <= 0
    THEN Response("create", None, 400, "room_id must be a positive integer.")
    ELSE IF ~parse_ok(data.start_time) \/ ~parse_ok(data.end_time)
    THEN Response("create", None, 400, "Invalid datetime format.")
    ELSE IF ~room_exists(data.room_id)
    THEN Response("create", None, 404, "Room does not exist.")
    ELSE IF comparison_raises(data.start_time, data.end_time)
    THEN Response("create", None, 500, "Internal Server Error")
    ELSE IF end_not_after_start(data.start_time, data.end_time)
    THEN Response("create", None, 400, "end_time must be strictly after start_time.")
    ELSE IF ~ensure_future_start(data.start_time)
    THEN Response("create", None, 400, "Bookings must start in the future.")
    ELSE [Idle EXCEPT !.pc = "has_conflict", !.kind = "create",
                      !.user_id = user_id, !.room_id = data.room_id,
                      !.start_time = data.start_time, !.end_time = data.end_time]

(* Lines 138-165: the body, the interval, the future start and the
   existence of the room.  The result is the response of a rejected request
   or the handler's locals before the conflict check.  No handler catches
   the TypeError of the comparison of line 157: the service answers 500. *)
create_booking_validate(user_id, data) ==
    IF data.room_id = None \/ data.start_time = None \/ data.end_time = None
    THEN Response("create", None, 400, "room_id, start_time, and end_time are required.")
    ELSE IF data.room_id <= 0
    THEN Response("create", None, 400, "room_id must be a positive integer.")
    ELSE IF ~parse_ok(data.start_time) \/ ~parse_ok(data.end_time)
    THEN Response("create", None, 400, "Invalid datetime format.")
    ELSE IF comparison_raises(data.start_time, data.end_time)
    THEN Response("create", None, 500, "Internal Server Error")
    ELSE IF end_not_after_start(data.start_time, data.end_time)
    THEN Response("create", None, 400, "end_time must be strictly after start_time.")
    ELSE IF ~ensure_future_start(data.start_time)
    THEN Response("create", None, 400, "Bookings must start in the future.")
    ELSE IF ~room_exists(data.room_id)
    THEN Response("create", None, 404, "Room does not exist.")
    ELSE [Idle EXCEPT !.pc = "has_conflict", !.kind = "create",
                      !.user_id = user_id, !.room_id = data.room_id,
                      !.start_time = data.start_time, !.end_time = data.end_time]

create_booking_body(p, data) ==
    /\ req[p].kind = "create"
    /\ req[p].pc = "body"
    /\ req' = [req EXCEPT ![p] = create_booking_validate(req[p].user_id, data)]
    /\ UNCHANGED <<room_cache_by_id, email_log, bookings, rooms, nextId, now, room_status_cache, reads>>

(* Lines 167-169 *)
create_booking_has_conflict(p) ==
    /\ req[p].kind = "create"
    /\ req[p].pc = "has_conflict"
    /\ req' = [req EXCEPT ![p] =
                 IF has_conflict(req[p].room_id, req[p].start_time, req[p].end_time, None)
                 THEN Response("create", None, 409, "Room is already booked for the given time range.")
                 ELSE [req[p] EXCEPT !.pc = "create_booking"]]
    /\ UNCHANGED <<room_cache_by_id, email_log, bookings, rooms, nextId, now, room_status_cache, reads>>

(* Lines 170-242: the insert, the notification and the response.  The
   transaction of create_booking has committed when the notification
   starts. *)
create_booking_respond(p, outcome) ==
    /\ req[p].kind = "create"
    /\ req[p].pc = "create_booking"
    /\ LET res == create_booking(req[p].user_id, req[p].room_id,
                                 req[p].start_time, req[p].end_time)
       IN  /\ bookings' = res.rows
           /\ nextId' = nextId + 1
           /\ req' = [req EXCEPT ![p] =
                        IF res.raised \/ notify(outcome).raised
                        THEN Response("create", None, 500, "Internal Server Error")
                        ELSE Response("create", res.row.booking_id, 201, "")]
    /\ UNCHANGED <<room_cache_by_id, rooms, now, room_status_cache, reads>>

create_booking_commit(p) ==
    /\ \E outcome \in NotificationOutcomes : create_booking_respond(p, outcome)
    /\ UNCHANGED email_log

----------------------------------------------------------------------------
(* update_booking_endpoint *)

(* Lines 328-342: authentication, the fetch of the row and the permission
   check. *)
update_booking_auth(payload, booking_id) ==
    LET row == fetch_booking(booking_id)
    IN  IF payload = NoAuth
        THEN Response("update", booking_id, 401, "Make sure your token is valid and not expired.")
        ELSE IF row = NoRow
        THEN Response("update", booking_id, 404, "Booking not found.")
        ELSE IF ~is_admin(payload) /\ row.user_id # payload.sub
        THEN Response("update", booking_id, 403, "Forbidden.")
        ELSE [Idle EXCEPT !.pc = "body", !.kind = "update",
                          !.booking_id = booking_id, !.row = row]

update_booking_endpoint(p, payload, booking_id) ==
    /\ req[p].pc = "idle"
    /\ req' = [req EXCEPT ![p] = update_booking_auth(payload, booking_id)]
    /\ UNCHANGED <<room_cache_by_id, email_log, bookings, rooms, nextId, now, room_status_cache, reads>>

(* Lines 344-380: the body and the checks of the final interval. *)
update_booking_validate(booking_id, row, data) ==
    LET final_start == IF data.start_time # None THEN data.start_time ELSE row.start_time
        final_end == IF data.end_time # None THEN data.end_time ELSE row.end_time
        final_room_id == IF data.room_id # None THEN data.room_id ELSE row.room_id
    IN  IF data.room_id # None /\ data.room_id <= 0
        THEN Response("update", booking_id, 400, "room_id must be a positive integer.")
        ELSE IF data.start_time # None /\ ~parse_ok(data.start_time)
        THEN Response("update", booking_id, 400, "Invalid datetime format.")
        ELSE IF data.end_time # None /\ ~parse_ok(data.end_time)
        THEN Response("update", booking_id, 400, "Invalid datetime format.")
        ELSE IF comparison_raises(final_start, final_end)
        THEN Response("update", booking_id, 500, "Internal Server Error")
        ELSE IF end_not_after_start(final_start, final_end)
        THEN Response("update", booking_id, 400, "end_time must be strictly after start_time.")
        ELSE IF ~ensure_future_start(final_start)
        THEN Response("update", booking_id, 400, "Updated booking must start in the future.")
        ELSE [Idle EXCEPT !.pc = IF data.room_id # None THEN "room_exists"
                                                         ELSE "has_conflict",
                          !.kind = "update", !.booking_id = booking_id,
                          !.room_id = data.room_id,
                          !.start_time = data.start_time,
                          !.end_time = data.end_time,
                          !.final_room_id = final_room_id,
                          !.final_start = final_start, !.final_end = final_end]

update_booking_body(p, data) ==
    /\ req[p].kind = "update"
    /\ req[p].pc = "body"
    /\ req' = [req EXCEPT ![p] =
                 update_booking_validate(req[p].booking_id, req[p].row, data)]
    /\ UNCHANGED <<room_cache_by_id, email_log, bookings, rooms, nextId, now, room_status_cache, reads>>

(* Lines 382-384 *)
update_booking_room_exists(p) ==
    /\ req[p].kind = "update"
    /\ req[p].pc = "room_exists"
    /\ req' = [req EXCEPT ![p] =
                 IF ~room_exists(req[p].final_room_id)
                 THEN Response("update", req[p].booking_id, 404, "Room does not exist.")
                 ELSE [req[p] EXCEPT !.pc = "has_conflict"]]
    /\ UNCHANGED <<room_cache_by_id, email_log, bookings, rooms, nextId, now, room_status_cache, reads>>

(* Lines 386-388 *)
update_booking_has_conflict(p) ==
    /\ req[p].kind = "update"
    /\ req[p].pc = "has_conflict"
    /\ req' = [req EXCEPT ![p] =
                 IF has_conflict(req[p].final_room_id, req[p].final_start,
                                 req[p].final_end, req[p].booking_id)
                 THEN Response("update", req[p].booking_id, 409, "Room is already booked for the given time range.")
                 ELSE [req[p] EXCEPT !.pc = "update_booking_times"]]
    /\ UNCHANGED <<room_cache_by_id, email_log, bookings, rooms, nextId, now, room_status_cache, reads>>

(* Lines 389-475: the statement, the notification and the response. *)
update_booking_respond(p, outcome) ==
    /\ req[p].kind = "update"
    /\ req[p].pc = "update_booking_times"
    /\ LET res == update_booking_times(req[p].booking_id, req[p].room_id,
                                       req[p].start_time, req[p].end_time)
       IN  /\ bookings' = res.rows
           /\ req' = [req EXCEPT ![p] =
                        IF res.raised
                        THEN Response("update", req[p].booking_id, 500, "Internal Server Error")
                        ELSE IF res.row = NoRow
                        THEN Response("update", req[p].booking_id, 404, "Booking not found or nothing to update.")
                        ELSE IF notify(outcome).raised
                        THEN Response("update", req[p].booking_id, 500, "Internal Server Error")
                        ELSE Response("update", req[p].booking_id, 200, "")]
    /\ UNCHANGED <<room_cache_by_id, rooms, nextId, now, room_status_cache, reads>>

update_booking_commit(p) ==
    /\ \E outcome \in NotificationOutcomes : update_booking_respond(p, outcome)
    /\ UNCHANGED email_log

----------------------------------------------------------------------------
(* delete_booking_endpoint *)

(* Lines 489-503: authentication, the fetch of the row and the permission
   check. *)
delete_booking_auth(payload, booking_id) ==
    LET row == fetch_booking(booking_id)
    IN  IF payload = NoAuth
        THEN Response("delete", booking_id, 401, "Make sure your token is valid and not expired.")
        ELSE IF row = NoRow
        THEN Response("delete", booking_id, 404, "Booking not found.")
        ELSE IF ~is_admin(payload) /\ row.user_id # payload.sub
        THEN Response("delete", booking_id, 403, "You do not have permission to cancel this booking.")
        ELSE [Idle EXCEPT !.pc = "delete_booking", !.kind = "delete",
                          !.booking_id = booking_id]

delete_booking_endpoint(p, payload, booking_id) ==
    /\ req[p].pc = "idle"
    /\ req' = [req EXCEPT ![p] = delete_booking_auth(payload, booking_id)]
    /\ UNCHANGED <<room_cache_by_id, email_log, bookings, rooms, nextId, now, room_status_cache, reads>>

(* Lines 505-571: the statement, the notification and the response. *)
delete_booking_respond(p, outcome) ==
    /\ req[p].kind = "delete"
    /\ req[p].pc = "delete_booking"
    /\ LET res == delete_booking(req[p].booking_id)
       IN  /\ bookings' = res.rows
           /\ req' = [req EXCEPT ![p] =
                        IF res.rowcount = 0
                        THEN Response("delete", req[p].booking_id, 404, "Booking not found.")
                        ELSE IF notify(outcome).raised
                        THEN Response("delete", req[p].booking_id, 500, "Internal Server Error")
                        ELSE Response("delete", req[p].booking_id, 200, "Booking cancelled successfully.")]
    /\ UNCHANGED <<room_cache_by_id, rooms, nextId, now, room_status_cache, reads>>

delete_booking_commit(p) ==
    /\ \E outcome \in NotificationOutcomes : delete_booking_respond(p, outcome)
    /\ UNCHANGED email_log

----------------------------------------------------------------------------
(* Read requests: check_room_availability of the bookings service and
   get_room_status of the rooms service.  The rooms service reads the
   bookings table of the shared database and keeps the status responses in
   _room_status_cache, a dictionary of its own process. *)

(* datetime.date(): the day an instant falls on, and the first and the last
   instant of a day (datetime.min.time(), datetime.max.time()). *)
date(t) == t \div DayLen

start_of_day(today) == today * DayLen

end_of_day(today) == today * DayLen + (DayLen - 1)

StatusRooms == InitialRooms \cup {3}

NoData == [room_id |-> None, bookings |-> {}, availability_intervals |-> <<>>]

NoEntry == [data |-> NoData, expires_at |-> None]

(* The locals of a read request.  writes is the number of booking writes
   committed when the request arrived: a label that lets two responses be
   compared, not a value the services hold. *)
IdleRead == [pc |-> "idle", kind |-> "none", room_id |-> None,
             start_time |-> None, end_time |-> None,
             status |-> 0, details |-> "", available |-> FALSE,
             data |-> NoData, writes |-> 0,
             user_id |-> None, listing |-> <<>>]

CommittedWrites ==
    Cardinality({p \in Procs : req[p].pc = "done" /\ req[p].status \in {200, 201}})

ReadResponse(kind, room_id, status, details) ==
    [IdleRead EXCEPT !.pc = "done", !.kind = kind, !.room_id = room_id,
                     !.status = status, !.details = details,
                     !.writes = CommittedWrites]

(* rooms_service/db.py *)
fetch_room(room_id) == IF room_id \in rooms THEN room_id ELSE None

fetch_bookings_for_room(room_id) == {b \in bookings : b.room_id = room_id}

(* Faulty variant: an entry is still served at the instant it expires. *)
get_cached_room_status_at_expiry(room_id) ==
    LET entry == room_status_cache[room_id]
    IN  IF entry # NoEntry /\ entry.expires_at >= now THEN entry.data ELSE NoData

(* rooms_service/app.py, lines 128-138 *)
get_cached_room_status(room_id) ==
    LET entry == room_status_cache[room_id]
    IN  IF entry # NoEntry /\ entry.expires_at > now THEN entry.data ELSE NoData

set_cached_room_status(room_id, data) ==
    [room_status_cache EXCEPT
        ![room_id] = [data |-> data, expires_at |-> now + StatusCacheTtl]]

(* Lines 87 and 106-116: the cache of get_room.  CACHE_TTL_SECONDS is
   twice STATUS_CACHE_TTL_SECONDS.  The cached value of a room stands for
   its row and is represented by its id. *)
CACHE_TTL == 2 * StatusCacheTtl

NoRoomEntry == [data |-> None, expires_at |-> None]

EmptyRoomCache == [room_id \in StatusRooms |-> NoRoomEntry]

get_cached_room(room_id) ==
    LET entry == room_cache_by_id[room_id]
    IN  IF entry # NoRoomEntry /\ entry.expires_at > now THEN entry.data ELSE None

set_cached_room(room_id, data) ==
    [room_cache_by_id EXCEPT
        ![room_id] = [data |-> data, expires_at |-> now + CACHE_TTL]]

(* Lines 354-363: the (start, end) pairs of the bookings that start and end
   today, sorted as Python sorts tuples. *)
RangeBefore(a, b) ==
    \/ a.start_time < b.start_time
    \/ a.start_time = b.start_time /\ a.end_time < b.end_time
    \/ /\ a.start_time = b.start_time /\ a.end_time = b.end_time
       /\ a.booking_id <= b.booking_id

RECURSIVE sorted_ranges(_)
sorted_ranges(rows) ==
    IF rows = {} THEN <<>>
    ELSE LET first == CHOOSE r \in rows : \A o \in rows : RangeBefore(r, o)
         IN  <<[start_time |-> first.start_time, end_time |-> first.end_time]>>
                \o sorted_ranges(rows \ {first})

(* Faulty variant: only the start of a booking has to fall on today. *)
booked_ranges_by_start(rows, today) ==
    sorted_ranges({b \in rows : date(b.start_time) = today})

booked_ranges(rows, today) ==
    sorted_ranges({b \in rows : date(b.start_time) = today
                                  /\ date(b.end_time) = today})

(* Faulty variant: the interval after the last booking is left out. *)
RECURSIVE sweep_no_tail(_, _, _)
sweep_no_tail(ranges, current_start, day_end) ==
    IF ranges = <<>> THEN <<>>
    ELSE LET b == Head(ranges)
             before == IF b.start_time > current_start
                       THEN <<[start_time |-> current_start,
                               end_time |-> b.start_time]>>
                       ELSE <<>>
             next_start == IF current_start > b.end_time THEN current_start
                           ELSE b.end_time
         IN  before \o sweep_no_tail(Tail(ranges), next_start, day_end)

(* Lines 365-385: the sweep over the sorted ranges. *)
RECURSIVE sweep(_, _, _)
sweep(ranges, current_start, day_end) ==
    IF ranges = <<>>
    THEN IF current_start < day_end
         THEN <<[start_time |-> current_start, end_time |-> day_end]>>
         ELSE <<>>
    ELSE LET b == Head(ranges)
             before == IF b.start_time > current_start
                       THEN <<[start_time |-> current_start,
                               end_time |-> b.start_time]>>
                       ELSE <<>>
             next_start == IF current_start > b.end_time THEN current_start
                           ELSE b.end_time
         IN  before \o sweep(Tail(ranges), next_start, day_end)

availability_intervals(rows, today) ==
    sweep(booked_ranges(rows, today), start_of_day(today), end_of_day(today))

(* Lines 387-404: the payload of the response. *)
response_payload(room_id, rows, today) ==
    [room_id |-> room_id,
     bookings |-> {b \in rows : date(b.start_time) = today},
     availability_intervals |-> availability_intervals(rows, today)]

(* get_room_status, lines 329-339: authentication, the role and the
   cache. *)
get_room_status_auth(payload, room_id) ==
    LET cached_status == get_cached_room_status(room_id)
    IN  IF payload = NoAuth
        THEN ReadResponse("status", room_id, 401, "Make sure your token is valid and not expired.")
        ELSE IF ~read_only(payload)
        THEN ReadResponse("status", room_id, 403, "Unauthorized. Auditor or Regular role required.")
        ELSE IF cached_status # NoData
        THEN [ReadResponse("status", room_id, 200, "") EXCEPT !.data = cached_status]
        ELSE [IdleRead EXCEPT !.pc = "fetch_room", !.kind = "status",
                              !.room_id = room_id, !.writes = CommittedWrites]

get_room_status(r, payload, room_id) ==
    /\ reads[r].pc = "idle"
    /\ reads' = [reads EXCEPT ![r] = get_room_status_auth(payload, room_id)]
    /\ UNCHANGED <<room_cache_by_id, email_log, bookings, rooms, nextId, now, req, room_status_cache>>

(* Lines 341-344 *)
get_room_status_fetch_room(r) ==
    /\ reads[r].kind = "status"
    /\ reads[r].pc = "fetch_room"
    /\ reads' = [reads EXCEPT ![r] =
                   IF fetch_room(reads[r].room_id) = None
                   THEN [ReadResponse("status", reads[r].room_id, 404, "Room not found.")
                           EXCEPT !.writes = reads[r].writes]
                   ELSE [reads[r] EXCEPT !.pc = "fetch_bookings_for_room"]]
    /\ UNCHANGED <<room_cache_by_id, email_log, bookings, rooms, nextId, now, req, room_status_cache>>

(* Lines 346-407: the bookings of the room, the sweep over today, the
   cache entry and the response. *)
get_room_status_compute(r) ==
    /\ reads[r].kind = "status"
    /\ reads[r].pc = "fetch_bookings_for_room"
    /\ LET room_id == reads[r].room_id
           data == response_payload(room_id, fetch_bookings_for_room(room_id),
                                    date(now))
       IN  /\ room_status_cache' = set_cached_room_status(room_id, data)
           /\ reads' = [reads EXCEPT ![r] =
                          [ReadResponse("status", room_id, 200, "")
                              EXCEPT !.data = data, !.writes = reads[r].writes]]
    /\ UNCHANGED <<room_cache_by_id, email_log, bookings, rooms, nextId, now, req>>

(* get_room, lines 173-187: authentication, the role and the cache. *)
get_room_auth(payload, room_id) ==
    IF payload = NoAuth
    THEN ReadResponse("room", room_id, 401, "Make sure your token is valid and not expired.")
    ELSE IF ~is_human_user(payload)
    THEN ReadResponse("room", room_id, 403, "Unauthorized. Human user role required.")
    ELSE IF get_cached_room(room_id) # None
    THEN ReadResponse("room", room_id, 200, "")
    ELSE [IdleRead EXCEPT !.pc = "fetch_room", !.kind = "room",
                          !.room_id = room_id, !.writes = CommittedWrites]

get_room(r, payload, room_id) ==
    /\ reads[r].pc = "idle"
    /\ reads' = [reads EXCEPT ![r] = get_room_auth(payload, room_id)]
    /\ UNCHANGED <<room_cache_by_id, email_log, bookings, rooms, nextId, now, req, room_status_cache>>

(* Lines 189-191 *)
get_room_fetch_room(r) ==
    /\ reads[r].kind = "room"
    /\ reads[r].pc = "fetch_room"
    /\ reads' = [reads EXCEPT ![r] =
                   IF fetch_room(reads[r].room_id) = None
                   THEN [ReadResponse("room", reads[r].room_id, 404,
                                      "Room not found. Make sure the ID is valid.")
                           EXCEPT !.writes = reads[r].writes]
                   ELSE [reads[r] EXCEPT !.pc = "fetch_equipment_for_room"]]
    /\ UNCHANGED <<room_cache_by_id, email_log, bookings, rooms, nextId, now, req, room_status_cache>>

(* Lines 192-197: the equipment of the room, the cache entry and the
   response. *)
get_room_respond(r) ==
    /\ reads[r].kind = "room"
    /\ reads[r].pc = "fetch_equipment_for_room"
    /\ room_cache_by_id' = set_cached_room(reads[r].room_id, reads[r].room_id)
    /\ reads' = [reads EXCEPT ![r] =
                   [ReadResponse("room", reads[r].room_id, 200, "")
                       EXCEPT !.writes = reads[r].writes]]
    /\ UNCHANGED <<email_log, bookings, rooms, nextId, now, req, room_status_cache>>

(* rooms_service/db.py, lines 257-271: the row of the room is deleted; the
   bookings of the room go with it (bookings_service/db.py, lines 29-32:
   ON DELETE CASCADE). *)
delete_room(room_id) ==
    [rowcount |-> IF room_id \in rooms THEN 1 ELSE 0,
     rooms |-> rooms \ {room_id},
     bookings |-> {b \in bookings : b.room_id # room_id}]

(* Lines 118-126 *)
invalidate_room_cache(room_id) ==
    [room_cache_by_id |-> [room_cache_by_id EXCEPT ![room_id] = NoRoomEntry],
     room_status_cache |-> [room_status_cache EXCEPT ![room_id] = NoEntry]]

(* delete_room_endpoint, lines 305-314: authentication and the role. *)
delete_room_auth(payload, room_id) ==
    IF payload = NoAuth
    THEN Response("delete_room", None, 401, "Make sure your token is valid and not expired.")
    ELSE IF ~is_admin_or_facility(payload)
    THEN Response("delete_room", None, 403, "Unauthorized. Admin or Facility Manager role required.")
    ELSE [Idle EXCEPT !.pc = "delete_room", !.kind = "delete_room",
                      !.room_id = room_id]

delete_room_endpoint(p, payload, room_id) ==
    /\ req[p].pc = "idle"
    /\ req' = [req EXCEPT ![p] = delete_room_auth(payload, room_id)]
    /\ UNCHANGED <<room_cache_by_id, email_log, bookings, rooms, nextId, now, room_status_cache, reads>>

(* Lines 315-319: the statement, the invalidation of the caches and the
   response. *)
delete_room_respond(p) ==
    /\ req[p].kind = "delete_room"
    /\ req[p].pc = "delete_room"
    /\ LET room_id == req[p].room_id
           deleted == delete_room(room_id)
           caches == invalidate_room_cache(room_id)
       IN  /\ rooms' = deleted.rooms
           /\ bookings' = deleted.bookings
           /\ IF deleted.rowcount = 0
              THEN /\ req' = [req EXCEPT ![p] =
                                [Response("delete_room", None, 404, "Room not found.")
                                    EXCEPT !.room_id = room_id]]
                   /\ UNCHANGED <<room_cache_by_id, room_status_cache>>
              ELSE /\ req' = [req EXCEPT ![p] =
                                [Response("delete_room", None, 200, "Room deleted successfully.")
                                    EXCEPT !.room_id = room_id]]
                   /\ room_cache_by_id' = caches.room_cache_by_id
                   /\ room_status_cache' = caches.room_status_cache
    /\ UNCHANGED <<email_log, nextId, now, reads>>

(* Faulty variant: the availability check refuses a window that does not
   start in the future, as create does. *)
check_room_availability_future_only(args) ==
    IF args.room_id = None \/ args.start_time = None \/ args.end_time = None
    THEN ReadResponse("check", None, 400, "room_id, start_time, and end_time query params are required.")
    ELSE IF ~parse_ok(args.room_id)
    THEN ReadResponse("check", None, 400, "room_id must be an integer.")
    ELSE IF ~parse_ok(args.start_time) \/ ~parse_ok(args.end_time)
    THEN ReadResponse("check", args.room_id, 400, "Invalid datetime format.")
    ELSE IF comparison_raises(args.start_time, args.end_time)
    THEN ReadResponse("check", args.room_id, 500, "Internal Server Error")
    ELSE IF end_not_after_start(args.start_time, args.end_time)
    THEN ReadResponse("check", args.room_id, 400, "end_time must be strictly after start_time.")
    ELSE IF ~ensure_future_start(args.start_time)
    THEN ReadResponse("check", args.room_id, 400, "Bookings must start in the future.")
    ELSE IF ~room_exists(args.room_id)
    THEN ReadResponse("check", args.room_id, 404, "Room does not exist.")
    ELSE [ReadResponse("check", args.room_id, 200, "")
            EXCEPT !.start_time = args.start_time, !.end_time = args.end_time,
                   !.available = ~has_conflict(args.room_id, args.start_time,
                                               args.end_time, None)]

(* bookings_service/app.py, lines 579-622.  The request carries no token:
   the handler does not call require_auth. *)
check_room_availability_response(args) ==
    IF args.room_id = None \/ args.start_time = None \/ args.end_time = None
    THEN ReadResponse("check", None, 400, "room_id, start_time, and end_time query params are required.")
    ELSE IF ~parse_ok(args.room_id)
    THEN ReadResponse("check", None, 400, "room_id must be an integer.")
    ELSE IF ~parse_ok(args.start_time) \/ ~parse_ok(args.end_time)
    THEN ReadResponse("check", args.room_id, 400, "Invalid datetime format.")
    ELSE IF comparison_raises(args.start_time, args.end_time)
    THEN ReadResponse("check", args.room_id, 500, "Internal Server Error")
    ELSE IF end_not_after_start(args.start_time, args.end_time)
    THEN ReadResponse("check", args.room_id, 400, "end_time must be strictly after start_time.")
    ELSE IF ~room_exists(args.room_id)
    THEN ReadResponse("check", args.room_id, 404, "Room does not exist.")
    ELSE [ReadResponse("check", args.room_id, 200, "")
            EXCEPT !.start_time = args.start_time, !.end_time = args.end_time,
                   !.available = ~has_conflict(args.room_id, args.start_time,
                                               args.end_time, None)]

check_room_availability(r, args) ==
    /\ reads[r].pc = "idle"
    /\ reads' = [reads EXCEPT ![r] = check_room_availability_response(args)]
    /\ UNCHANGED <<room_cache_by_id, email_log, bookings, rooms, nextId, now, req, room_status_cache>>

(* bookings_service/db.py, lines 74-105 and 144-158: SELECT ... ORDER BY
   start_time.  The statement fixes the order of rows with different starts
   and leaves the order of rows with the same start to the database: every
   arrangement of the rows in which the starts do not decrease is a result
   the statement can give. *)
OrderedByStart(rows) ==
    {listing \in [1..Cardinality(rows) -> rows] :
        /\ \A i, j \in 1..Cardinality(rows) : i # j => listing[i] # listing[j]
        /\ \A i, j \in 1..Cardinality(rows) :
              i < j => listing[i].start_time <= listing[j].start_time}

fetch_bookings_for_user(user_id) ==
    OrderedByStart({b \in bookings : b.user_id = user_id})

fetch_all_bookings == OrderedByStart(bookings)

(* bookings_service/db.py, lines 161-180: the statement selects room_name
   AS name and location from the rooms table where room_id matches.  The
   result is the list of the rows fetched: one row for a room that exists,
   none otherwise.  The name and the location of a room are represented by
   its id. *)
bookings_service_fetch_bookings_for_room(room_id) ==
    IF room_id \in rooms
    THEN <<[name |-> room_id, location |-> room_id]>>
    ELSE <<>>

(* A caller of the operation of the store adapter: the list returned is
   kept with the room it was asked for. *)
call_fetch_bookings_for_room(r, room_id) ==
    /\ reads[r].pc = "idle"
    /\ reads' = [reads EXCEPT ![r] =
                   [ReadResponse("fetch_bookings_for_room", room_id, 0, "")
                       EXCEPT !.listing =
                                 bookings_service_fetch_bookings_for_room(room_id)]]
    /\ UNCHANGED <<room_cache_by_id, email_log, bookings, rooms, nextId, now, req, room_status_cache>>

(* bookings_service/app.py, lines 249-273 *)
get_my_bookings(r, payload) ==
    /\ reads[r].pc = "idle"
    /\ IF payload = NoAuth
       THEN reads' = [reads EXCEPT ![r] =
                ReadResponse("my_bookings", None, 401, "Make sure your token is valid and not expired.")]
       ELSE \E rows \in fetch_bookings_for_user(payload.sub) :
              reads' = [reads EXCEPT ![r] =
                          [ReadResponse("my_bookings", None, 200, "")
                              EXCEPT !.user_id = payload.sub, !.listing = rows]]
    /\ UNCHANGED <<room_cache_by_id, email_log, bookings, rooms, nextId, now, req, room_status_cache>>

(* bookings_service/app.py, lines 280-307 *)
get_all_bookings_endpoint(r, payload) ==
    /\ reads[r].pc = "idle"
    /\ IF payload = NoAuth
       THEN reads' = [reads EXCEPT ![r] =
                ReadResponse("all_bookings", None, 401, "Make sure your token is valid and not expired.")]
       ELSE IF ~(is_admin_or_facility(payload) \/ is_auditor(payload))
       THEN reads' = [reads EXCEPT ![r] =
                ReadResponse("all_bookings", None, 403, "Admin, facility manager or auditor only.")]
       ELSE \E rows \in fetch_all_bookings :
              reads' = [reads EXCEPT ![r] =
                          [ReadResponse("all_bookings", None, 200, "")
                              EXCEPT !.user_id = payload.sub, !.listing = rows]]
    /\ UNCHANGED <<room_cache_by_id, email_log, bookings, rooms, nextId, now, req, room_status_cache>>

(* The client has its response; the worker of the server takes the next
   read request. *)
next_read(r) ==
    /\ reads[r].pc = "done"
    /\ reads' = [reads EXCEPT ![r] = IdleRead]
    /\ UNCHANGED <<room_cache_by_id, email_log, bookings, rooms, nextId, now, req, room_status_cache>>

----------------------------------------------------------------------------
(* The environment *)

(* datetime.utcnow() moves forward. *)
Tick ==
    /\ now < MaxNow
    /\ now' = now + 1
    /\ UNCHANGED <<room_cache_by_id, email_log, bookings, rooms, nextId, req, room_status_cache, reads>>

Bodies == [room_id : RoomInputs, start_time : TimeInputs, end_time : TimeInputs]

(* The bookings table when the requests of the model arrive: empty, or
   holding what earlier requests have committed. *)
Row(booking_id, user_id, room_id, start_time, end_time) ==
    [booking_id |-> booking_id, user_id |-> user_id, room_id |-> room_id,
     start_time |-> start_time, end_time |-> end_time, created_at |-> 0]

InitialBookings ==
    { {},
      {Row(1, 1, 1, 1, 3)},
      {Row(1, 1, 1, 1, 2), Row(2, 1, 1, 2, 3)} }

Readers == {1, 2}

EmptyCache == [room_id \in StatusRooms |-> NoEntry]

Init ==
    /\ bookings \in InitialBookings
    /\ rooms = InitialRooms
    /\ nextId = Cardinality(bookings) + 1
    /\ now = 0
    /\ req = [p \in Procs |-> Idle]
    /\ room_status_cache = EmptyCache
    /\ reads = [r \in Readers |-> IdleRead]
    /\ email_log = NoEmail
    /\ room_cache_by_id = EmptyRoomCache

Next ==
    \/ \E p \in Procs, payload \in Payloads : create_booking_endpoint(p, payload)
    \/ \E p \in Procs, data \in Bodies : create_booking_body(p, data)
    \/ \E p \in Procs : create_booking_has_conflict(p)
    \/ \E p \in Procs : create_booking_commit(p)
    \/ \E p \in Procs, payload \in Payloads, id \in BookingIdInputs :
          update_booking_endpoint(p, payload, id)
    \/ \E p \in Procs, data \in Bodies : update_booking_body(p, data)
    \/ \E p \in Procs : update_booking_room_exists(p)
    \/ \E p \in Procs : update_booking_has_conflict(p)
    \/ \E p \in Procs : update_booking_commit(p)
    \/ \E p \in Procs, payload \in Payloads, id \in BookingIdInputs :
          delete_booking_endpoint(p, payload, id)
    \/ \E p \in Procs : delete_booking_commit(p)
    \/ Tick

Spec == Init /\ [][Next]_vars

----------------------------------------------------------------------------
(* The read requests against every store of up to two bookings on room 1
   around today, the second day of the clock: one reader, no writer. *)

ReadTimes == (DayLen - 1)..(2 * DayLen)

Windows == {w \in ReadTimes \X ReadTimes : w[1] < w[2]}

OtherRoomRow == Row(3, 2, 2, DayLen + 1, DayLen + 2)

ReadStores ==
    {{OtherRoomRow}}
      \cup {{Row(1, 1, 1, w[1], w[2]), OtherRoomRow} : w \in Windows}
      \cup {{Row(1, 1, 1, q[1][1], q[1][2]), Row(2, 2, 1, q[2][1], q[2][2]),
              OtherRoomRow} :
              q \in {x \in Windows \X Windows : x[1][1] <= x[2][1]}}

CheckArgs ==
    [room_id : {None, Unparseable, 0} \cup StatusRooms,
     start_time : {None, Unparseable} \cup ReadTimes,
     end_time : {None, Unparseable} \cup ReadTimes]

ReadSpecReaders == {1}

ReadTick ==
    /\ now < DayLen + MaxTicks
    /\ now' = now + 1
    /\ UNCHANGED <<room_cache_by_id, email_log, bookings, rooms, nextId, req, room_status_cache, reads>>

ReadInit ==
    /\ bookings \in ReadStores
    /\ rooms = InitialRooms
    /\ nextId = 4
    /\ now = DayLen
    /\ req = [p \in Procs |-> Idle]
    /\ room_status_cache = EmptyCache
    /\ reads = [r \in Readers |-> IdleRead]
    /\ email_log = NoEmail
    /\ room_cache_by_id = EmptyRoomCache

ReadNext ==
    \/ \E r \in ReadSpecReaders, payload \in Payloads, room_id \in StatusRooms :
          get_room_status(r, payload, room_id)
    \/ \E r \in ReadSpecReaders : get_room_status_fetch_room(r)
    \/ \E r \in ReadSpecReaders : get_room_status_compute(r)
    \/ \E r \in ReadSpecReaders : next_read(r)
    \/ ReadTick

ReadSpec == ReadInit /\ [][ReadNext]_vars

(* The availability checks against the same stores. *)
CheckNext ==
    \/ \E r \in ReadSpecReaders, args \in CheckArgs : check_room_availability(r, args)
    \/ \E r \in ReadSpecReaders : next_read(r)
    \/ ReadTick

CheckSpec == ReadInit /\ [][CheckNext]_vars

----------------------------------------------------------------------------
(* The status requests of two readers on room 1 against the creates and
   cancels of the bookings service, today. *)

StatusStores == { {}, {Row(1, 1, 1, DayLen + 2, DayLen + 3)} }

StatusPayloads == {[sub |-> 1, role |-> "regular"]}

StatusBodies ==
    {[room_id |-> 1, start_time |-> DayLen + 1, end_time |-> DayLen + 2]}

StatusInit ==
    /\ bookings \in StatusStores
    /\ rooms = InitialRooms
    /\ nextId = Cardinality(bookings) + 1
    /\ now = DayLen
    /\ req = [p \in Procs |-> Idle]
    /\ room_status_cache = EmptyCache
    /\ reads = [r \in Readers |-> IdleRead]
    /\ email_log = NoEmail
    /\ room_cache_by_id = EmptyRoomCache

StatusNext ==
    \/ \E r \in Readers, payload \in StatusPayloads :
          get_room_status(r, payload, 1)
    \/ \E r \in Readers : get_room_status_fetch_room(r)
    \/ \E r \in Readers : get_room_status_compute(r)
    \/ \E r \in Readers : next_read(r)
    \/ \E p \in Procs, payload \in StatusPayloads :
          create_booking_endpoint(p, payload)
    \/ \E p \in Procs, data \in StatusBodies : create_booking_body(p, data)
    \/ \E p \in Procs : create_booking_has_conflict(p)
    \/ \E p \in Procs : create_booking_commit(p)
    \/ \E p \in Procs, payload \in StatusPayloads :
          delete_booking_endpoint(p, payload, 1)
    \/ \E p \in Procs : delete_booking_commit(p)
    \/ ReadTick

StatusSpec == StatusInit /\ [][StatusNext]_vars

----------------------------------------------------------------------------
(* The writes of the bookings service with the log of the notification
   step kept: for each worker, what the notification of its request met. *)

NotifyPayloads == {[sub |-> 1, role |-> "regular"]}

NotifyBodies ==
    {[room_id |-> 2, start_time |-> 2, end_time |-> 3],
     [room_id |-> None, start_time |-> 2, end_time |-> None]}

create_booking_logged(p) ==
    \E outcome \in NotificationOutcomes :
        /\ create_booking_respond(p, outcome)
        /\ email_log' = [email_log EXCEPT ![p] =
                            IF ~create_booking(req[p].user_id, req[p].room_id,
                                               req[p].start_time,
                                               req[p].end_time).raised
                            THEN notify(outcome).logged ELSE @]

update_booking_logged(p) ==
    \E outcome \in NotificationOutcomes :
        /\ update_booking_respond(p, outcome)
        /\ email_log' = [email_log EXCEPT ![p] =
                            IF update_booking_times(req[p].booking_id,
                                                    req[p].room_id,
                                                    req[p].start_time,
                                                    req[p].end_time).row # NoRow
                            THEN notify(outcome).logged ELSE @]

delete_booking_logged(p) ==
    \E outcome \in NotificationOutcomes :
        /\ delete_booking_respond(p, outcome)
        /\ email_log' = [email_log EXCEPT ![p] =
                            IF delete_booking(req[p].booking_id).rowcount = 1
                            THEN notify(outcome).logged ELSE @]

NotifyNext ==
    \/ \E p \in Procs, payload \in NotifyPayloads : create_booking_endpoint(p, payload)
    \/ \E p \in Procs, data \in NotifyBodies : create_booking_body(p, data)
    \/ \E p \in Procs : create_booking_has_conflict(p)
    \/ \E p \in Procs : create_booking_logged(p)
    \/ \E p \in Procs, payload \in NotifyPayloads, id \in BookingIdInputs :
          update_booking_endpoint(p, payload, id)
    \/ \E p \in Procs, data \in NotifyBodies : update_booking_body(p, data)
    \/ \E p \in Procs : update_booking_room_exists(p)
    \/ \E p \in Procs : update_booking_has_conflict(p)
    \/ \E p \in Procs : update_booking_logged(p)
    \/ \E p \in Procs, payload \in NotifyPayloads, id \in BookingIdInputs :
          delete_booking_endpoint(p, payload, id)
    \/ \E p \in Procs : delete_booking_logged(p)
    \/ Tick

NotifySpec == Init /\ [][NotifyNext]_vars

----------------------------------------------------------------------------
(* Creates, updates and availability checks whose timestamps are naive or
   carry an offset.  Requests in which every timestamp compared is aware
   are left out: what the database does with them is not modelled. *)

TzTimes == Times \cup {t + AwareTag : t \in Times}

TzBodies ==
    {data \in [room_id : {None, 1}, start_time : {None} \cup TzTimes,
               end_time : {None} \cup TzTimes] :
        ~(tz_aware(data.start_time) /\ tz_aware(data.end_time))}

TzUpdateBodies ==
    {data \in TzBodies :
        (tz_aware(data.start_time) \/ tz_aware(data.end_time))
          => (data.start_time = None \/ data.end_time = None
               \/ comparison_raises(data.start_time, data.end_time))}

TzCheckArgs ==
    {args \in [room_id : {1}, start_time : TzTimes, end_time : TzTimes] :
        ~(tz_aware(args.start_time) /\ tz_aware(args.end_time))}

TzProcs == {1}

TzNext ==
    \/ \E p \in TzProcs, payload \in NotifyPayloads : create_booking_endpoint(p, payload)
    \/ \E p \in TzProcs, data \in TzBodies : create_booking_body(p, data)
    \/ \E p \in TzProcs : create_booking_has_conflict(p)
    \/ \E p \in TzProcs : create_booking_commit(p)
    \/ \E p \in TzProcs, payload \in NotifyPayloads, id \in BookingIdInputs :
          update_booking_endpoint(p, payload, id)
    \/ \E p \in TzProcs, data \in TzUpdateBodies : update_booking_body(p, data)
    \/ \E p \in TzProcs : update_booking_room_exists(p)
    \/ \E p \in TzProcs : update_booking_has_conflict(p)
    \/ \E p \in TzProcs : update_booking_commit(p)
    \/ \E r \in ReadSpecReaders, args \in TzCheckArgs : check_room_availability(r, args)
    \/ \E r \in ReadSpecReaders : next_read(r)
    \/ Tick

TzSpec == Init /\ [][TzNext]_vars

----------------------------------------------------------------------------
(* The listings of two readers against the stores made of four bookings,
   two of them of user 1 with the same start on different rooms. *)

ListRows ==
    {Row(1, 1, 1, 1, 2), Row(2, 1, 2, 1, 3), Row(3, 2, 1, 2, 3),
     Row(4, 1, 2, 0, 1)}

ListStores == SUBSET ListRows

ListPayloads ==
    {NoAuth, [sub |-> 1, role |-> "regular"], [sub |-> 2, role |-> "regular"],
     [sub |-> 2, role |-> "admin"], [sub |-> 1, role |-> "auditor"]}

ListInit ==
    /\ bookings \in ListStores
    /\ rooms = InitialRooms
    /\ nextId = 5
    /\ now = 0
    /\ req = [p \in Procs |-> Idle]
    /\ room_status_cache = EmptyCache
    /\ reads = [r \in Readers |-> IdleRead]
    /\ email_log = NoEmail
    /\ room_cache_by_id = EmptyRoomCache

ListNext ==
    \/ \E r \in Readers, payload \in ListPayloads : get_my_bookings(r, payload)
    \/ \E r \in Readers, payload \in ListPayloads :
          get_all_bookings_endpoint(r, payload)
    \/ \E r \in Readers : next_read(r)
    \/ Tick

ListSpec == ListInit /\ [][ListNext]_vars

----------------------------------------------------------------------------
(* Requests that run one at a time: a single worker serves a request from
   its first step to its response before it takes the next one, so that no
   other request's access of the store falls between its fetch, its
   conflict check and its commit.  The worker stops taking creates when the
   sequence of ids has passed MaxBookingId. *)

AtomicProcs == {1}

next_request(p) ==
    /\ req[p].pc = "done"
    /\ req' = [req EXCEPT ![p] = Idle]
    /\ UNCHANGED <<room_cache_by_id, email_log, bookings, rooms, nextId, now, room_status_cache, reads>>

AtomicNext ==
    \/ \E p \in AtomicProcs, payload \in Payloads :
          nextId <= MaxBookingId /\ create_booking_endpoint(p, payload)
    \/ \E p \in AtomicProcs, data \in Bodies : create_booking_body(p, data)
    \/ \E p \in AtomicProcs : create_booking_has_conflict(p)
    \/ \E p \in AtomicProcs : create_booking_commit(p)
    \/ \E p \in AtomicProcs, payload \in Payloads, id \in BookingIdInputs :
          update_booking_endpoint(p, payload, id)
    \/ \E p \in AtomicProcs, data \in Bodies : update_booking_body(p, data)
    \/ \E p \in AtomicProcs : update_booking_room_exists(p)
    \/ \E p \in AtomicProcs : update_booking_has_conflict(p)
    \/ \E p \in AtomicProcs : update_booking_commit(p)
    \/ \E p \in AtomicProcs, payload \in Payloads, id \in BookingIdInputs :
          delete_booking_endpoint(p, payload, id)
    \/ \E p \in AtomicProcs : delete_booking_commit(p)
    \/ \E p \in AtomicProcs : next_request(p)
    \/ Tick

AtomicSpec == Init /\ [][AtomicNext]_vars

----------------------------------------------------------------------------
(* The reads of room 1 in the rooms service (its status and its row) by
   two readers against the deletion of the room. *)

RoomPayloads == {[sub |-> 1, role |-> "admin"], [sub |-> 2, role |-> "auditor"]}

RoomNext ==
    \/ \E r \in Readers, payload \in RoomPayloads : get_room_status(r, payload, 1)
    \/ \E r \in Readers : get_room_status_fetch_room(r)
    \/ \E r \in Readers : get_room_status_compute(r)
    \/ \E r \in Readers, payload \in RoomPayloads : get_room(r, payload, 1)
    \/ \E r \in Readers : get_room_fetch_room(r)
    \/ \E r \in Readers : get_room_respond(r)
    \/ \E r \in Readers : next_read(r)
    \/ \E p \in Procs, payload \in RoomPayloads : delete_room_endpoint(p, payload, 1)
    \/ \E p \in Procs : delete_room_respond(p)
    \/ ReadTick

RoomSpec == StatusInit /\ [][RoomNext]_vars

----------------------------------------------------------------------------
(* The creates and updates of the bookings service against the deletion of
   rooms in the rooms service: both services write the same database. *)

FkPayloads == {[sub |-> 1, role |-> "admin"]}

FkBodies == [room_id : {None} \cup InitialRooms, start_time : {None, 2},
             end_time : {None, 3}]

FkNext ==
    \/ \E p \in Procs, payload \in FkPayloads : create_booking_endpoint(p, payload)
    \/ \E p \in Procs, data \in FkBodies : create_booking_body(p, data)
    \/ \E p \in Procs : create_booking_has_conflict(p)
    \/ \E p \in Procs : create_booking_commit(p)
    \/ \E p \in Procs, payload \in FkPayloads, id \in BookingIdInputs :
          update_booking_endpoint(p, payload, id)
    \/ \E p \in Procs, data \in FkBodies : update_booking_body(p, data)
    \/ \E p \in Procs : update_booking_room_exists(p)
    \/ \E p \in Procs : update_booking_has_conflict(p)
    \/ \E p \in Procs : update_booking_commit(p)
    \/ \E p \in Procs, payload \in FkPayloads, room_id \in InitialRooms :
          delete_room_endpoint(p, payload, room_id)
    \/ \E p \in Procs : delete_room_respond(p)
    \/ Tick

FkSpec == Init /\ [][FkNext]_vars

----------------------------------------------------------------------------
(* The operation fetch_bookings_for_room of the bookings service applied to
   every room id against the stores of the listings. *)

AdapterNext ==
    \/ \E r \in Readers, room_id \in StatusRooms :
          call_fetch_bookings_for_room(r, room_id)
    \/ \E r \in Readers : next_read(r)
    \/ Tick

AdapterSpec == ListInit /\ [][AdapterNext]_vars

----------------------------------------------------------------------------
(* The claims *)

(* The overlap predicate of the specification, section 4.1. *)
Overlaps(a_start, a_end, b_start, b_end) ==
    ~(a_end <= b_start \/ b_end <= a_start)

WellFormedCreate(data) ==
    /\ data.room_id > 0
    /\ data.start_time \in Times
    /\ data.end_time \in Times

WellFormedUpdate(data) ==
    /\ data.room_id = None \/ data.room_id > 0
    /\ data.start_time \in Times \cup {None}
    /\ data.end_time \in Times \cup {None}

(* C1: in every reachable store state no two distinct stored bookings on the
   same room overlap, under every interleaving of the steps of concurrent
   create and update requests. *)
C1_NoOverlap ==
    \A a, b \in bookings :
        (a # b /\ a.room_id = b.room_id)
            => (a.end_time <= b.start_time \/ b.end_time <= a.start_time)

(* C2: two create requests for the same room with overlapping windows that
   are in flight together never both get "no conflict" from their conflict
   checks, so they never both go on to insert and return 201. *)
C2_AtMostOneCreatePasses ==
    \A p, q \in Procs :
        (/\ p # q
         /\ req[p].kind = "create" /\ req[q].kind = "create"
         /\ req[p].pc = "create_booking"
         /\ req[p].room_id = req[q].room_id
         /\ Overlaps(req[p].start_time, req[p].end_time,
                     req[q].start_time, req[q].end_time))
            => req[q].pc # "create_booking"

(* C3: has_conflict is the half-open overlap test: for every candidate
   [s, e) on a room, with or without an excluded id, it is true iff some
   stored booking b on the room other than the excluded one has
   b.start < e and s < b.end; and the conflict check of a create rejects
   with 409 iff that holds, so that a create touching a stored booking at a
   boundary goes on to the insert. *)
C3_HalfOpenOverlap ==
    /\ [](\A room_id \in InitialRooms, s \in Times, e \in Times,
             x \in BookingIdInputs \cup {None} :
            has_conflict(room_id, s, e, x)
              <=> \E b \in bookings : /\ b.room_id = room_id
                                      /\ b.booking_id # x
                                      /\ b.start_time < e /\ s < b.end_time)
    /\ [][\A p \in Procs :
            create_booking_has_conflict(p)
              => /\ req'[p].status = 409
                      <=> \E b \in bookings :
                             /\ b.room_id = req[p].room_id
                             /\ b.start_time < req[p].end_time
                             /\ req[p].start_time < b.end_time
                 /\ req'[p].status # 409 => req'[p].pc = "create_booking"]_vars

(* A create has returned 201 for a booking that touches another stored
   booking of the same room at a boundary. *)
C3_Witness ==
    \E p \in Procs : \E a, b \in bookings :
        /\ req[p].kind = "create" /\ req[p].pc = "done" /\ req[p].status = 201
        /\ b.booking_id = req[p].booking_id
        /\ a.room_id = b.room_id
        /\ a.end_time = b.start_time \/ b.end_time = a.start_time

(* C4: a create whose window overlaps a stored booking of the same room at
   its conflict check is answered 409 and the store stays as it was. *)
C4_ConflictRejected ==
    [][\A p \in Procs :
          (/\ create_booking_has_conflict(p)
           /\ \E b \in bookings :
                 /\ b.room_id = req[p].room_id
                 /\ Overlaps(req[p].start_time, req[p].end_time,
                             b.start_time, b.end_time))
            => /\ req'[p].pc = "done"
               /\ req'[p].status = 409
               /\ req'[p].details = "Room is already booked for the given time range."
               /\ bookings' = bookings
               /\ nextId' = nextId]_vars

(* A create has been answered 409 while the booking [1, 3) of room 1 is
   stored. *)
C4_Witness ==
    \E p \in Procs :
        /\ req[p].kind = "create" /\ req[p].pc = "done" /\ req[p].status = 409
        /\ Row(1, 1, 1, 1, 3) \in bookings

(* The well-formed create bodies, and those of them whose interval is empty
   or reversed. *)
WellFormedCreateBodies == {data \in Bodies : WellFormedCreate(data)}

WellFormedUpdateBodies == {data \in Bodies : WellFormedUpdate(data)}

InvalidIntervalBodies ==
    {data \in WellFormedCreateBodies : data.start_time >= data.end_time}

(* C5: a create with well-formed inputs and start = end or start > end is
   answered 400 "end_time must be strictly after start_time." and inserts
   nothing, whatever the room, the requester and the time. *)
C5_InvalidInterval ==
    [][\A p \in Procs :
          (req[p].kind = "create" /\ req[p].pc = "body" /\ req'[p].pc # "body")
            => \A data \in InvalidIntervalBodies :
                  create_booking_body(p, data)
                    => /\ req'[p].pc = "done"
                       /\ req'[p].status = 400
                       /\ req'[p].details = "end_time must be strictly after start_time."
                       /\ bookings' = bookings
                       /\ nextId' = nextId]_vars

(* A create has been answered with the interval message. *)
C5_Witness ==
    \E p \in Procs :
        /\ req[p].kind = "create" /\ req[p].pc = "done" /\ req[p].status = 400
        /\ req[p].details = "end_time must be strictly after start_time."

(* C6: a create or update whose effective start is not after the current
   time when it is validated is answered 400 and writes nothing; the answer
   is the future-start message whenever the effective interval is in order.
   The effective start of an update is the start of the fetched row when the
   body supplies none. *)
C6_PastStart ==
    [][\A p \in Procs :
          /\ (req[p].kind = "create" /\ req[p].pc = "body" /\ req'[p].pc # "body")
               => \A data \in WellFormedCreateBodies :
                     (data.start_time <= now /\ create_booking_body(p, data))
                       => /\ req'[p].pc = "done"
                          /\ req'[p].status = 400
                          /\ data.start_time < data.end_time
                               => req'[p].details = "Bookings must start in the future."
                          /\ bookings' = bookings
          /\ (req[p].kind = "update" /\ req[p].pc = "body" /\ req'[p].pc # "body")
               => \A data \in WellFormedUpdateBodies :
                     LET final_start == IF data.start_time # None
                                        THEN data.start_time
                                        ELSE req[p].row.start_time
                         final_end == IF data.end_time # None
                                      THEN data.end_time
                                      ELSE req[p].row.end_time
                     IN  (final_start <= now /\ update_booking_body(p, data))
                           => /\ req'[p].pc = "done"
                              /\ req'[p].status = 400
                              /\ final_start < final_end
                                   => req'[p].details = "Updated booking must start in the future."
                              /\ bookings' = bookings]_vars

(* A create and an update have both been answered with the future-start
   message, the update for a booking whose stored start is not after now. *)
C6_Witness ==
    \E p, q \in Procs :
        /\ req[p].kind = "create" /\ req[p].pc = "done" /\ req[p].status = 400
        /\ req[p].details = "Bookings must start in the future."
        /\ req[q].kind = "update" /\ req[q].pc = "done" /\ req[q].status = 400
        /\ req[q].details = "Updated booking must start in the future."
        /\ fetch_booking(req[q].booking_id) # NoRow
        /\ fetch_booking(req[q].booking_id).start_time <= now

(* C7: at the step where a create or an update commits a row, the start of
   the committed row is after the current time at that step. *)
C7_FutureStartAtCommit ==
    [][\A p \in Procs :
          /\ (create_booking_commit(p) /\ req'[p].status = 201)
               => req[p].start_time > now
          /\ (update_booking_commit(p) /\ req'[p].status = 200)
               => \A b \in bookings' :
                     b.booking_id = req[p].booking_id => b.start_time > now]_vars

(* C8: the conflict check of an update of X rejects with 409 iff a stored
   booking other than X on the final room overlaps the final window: the
   row of X is ignored, and no other row is.  An update that has passed the
   check, supplies a field and runs with no other request under way is
   answered 200 and leaves X with the final room and window. *)
C8_SelfExclusion ==
    [][\A p \in Procs :
          /\ update_booking_has_conflict(p)
               => /\ req'[p].status = 409
                       <=> \E b \in bookings :
                              /\ b.booking_id # req[p].booking_id
                              /\ b.room_id = req[p].final_room_id
                              /\ Overlaps(req[p].final_start, req[p].final_end,
                                          b.start_time, b.end_time)
                  /\ req'[p].status # 409 => req'[p].pc = "update_booking_times"
          /\ (/\ update_booking_commit(p)
              /\ \A q \in Procs \ {p} : req[q].pc = "idle"
              /\ <<req[p].room_id, req[p].start_time, req[p].end_time>>
                    # <<None, None, None>>)
               => /\ req'[p].status = 200
                  /\ \E b \in bookings' :
                        /\ b.booking_id = req[p].booking_id
                        /\ b.room_id = req[p].final_room_id
                        /\ b.start_time = req[p].final_start
                        /\ b.end_time = req[p].final_end]_vars

(* An update has passed its conflict check with a final window that differs
   from, and overlaps, the stored window of the booking it updates. *)
C8_Witness ==
    \E p \in Procs :
        /\ req[p].kind = "update" /\ req[p].pc = "update_booking_times"
        /\ LET x == fetch_booking(req[p].booking_id)
           IN  /\ x # NoRow
               /\ x.room_id = req[p].final_room_id
               /\ <<x.start_time, x.end_time>> # <<req[p].final_start, req[p].final_end>>
               /\ Overlaps(req[p].final_start, req[p].final_end,
                           x.start_time, x.end_time)

(* C9: an update or a delete by an authenticated actor who is not the
   requester of the booking and whose role is not admin is answered 403 and
   leaves the store as it was, the row still present. *)
C9_Forbidden ==
    [][\A p \in Procs, payload \in Payloads, id \in BookingIdInputs :
          (/\ update_booking_endpoint(p, payload, id)
                \/ delete_booking_endpoint(p, payload, id)
           /\ payload # NoAuth
           /\ payload.role # "admin"
           /\ fetch_booking(id) # NoRow
           /\ fetch_booking(id).user_id # payload.sub)
            => /\ req'[p].pc = "done"
               /\ req'[p].status = 403
               /\ bookings' = bookings
               /\ fetch_booking(id) \in bookings']_vars

(* An update and a delete of a stored booking have both been answered
   403. *)
C9_Witness ==
    \E p, q \in Procs :
        /\ req[p].kind = "update" /\ req[p].pc = "done" /\ req[p].status = 403
        /\ req[q].kind = "delete" /\ req[q].pc = "done" /\ req[q].status = 403
        /\ fetch_booking(req[p].booking_id) # NoRow
        /\ fetch_booking(req[q].booking_id) # NoRow

(* C10: in every reachable store state every stored booking has
   start < end. *)
C10_StartBeforeEnd ==
    \A b \in bookings : b.start_time < b.end_time

(* Two updates of the same booking were in flight together; one has
   committed and the other's statement has been refused by the store. *)
C10_Witness ==
    \E p, q \in Procs :
        /\ p # q
        /\ req[p].kind = "update" /\ req[q].kind = "update"
        /\ req[p].booking_id = req[q].booking_id
        /\ req[p].pc = "done" /\ req[p].status = 200
        /\ req[q].pc = "done" /\ req[q].status = 500

----------------------------------------------------------------------------
(* C11: an update answered 200 leaves in the store one row with the id of
   the update whose id, requester and creation time are those of the row
   stored when the statement ran, whose room, start and end are the
   supplied values where the request supplied one and the stored values
   where it did not, and every other row as it was. *)
C11_UpdateFrame ==
    [][\A p \in Procs :
          (update_booking_commit(p) /\ req'[p].status = 200)
            => LET old == fetch_booking(req[p].booking_id)
               IN  /\ old # NoRow
                   /\ \E new \in bookings' :
                         /\ new.booking_id = old.booking_id
                         /\ new.user_id = old.user_id
                         /\ new.created_at = old.created_at
                         /\ new.room_id = IF req[p].room_id # None
                                          THEN req[p].room_id ELSE old.room_id
                         /\ new.start_time = IF req[p].start_time # None
                                             THEN req[p].start_time
                                             ELSE old.start_time
                         /\ new.end_time = IF req[p].end_time # None
                                           THEN req[p].end_time ELSE old.end_time
                         /\ bookings' \ {new} = bookings \ {old}
                   /\ nextId' = nextId]_vars

(* An update that supplied only a start has been answered 200: booking 1,
   stored as [1, 3) on room 1, is now [2, 3) on room 1. *)
C11_Witness ==
    \E p \in Procs :
        /\ req[p].kind = "update" /\ req[p].pc = "done" /\ req[p].status = 200
        /\ req[p].booking_id = 1
        /\ Row(1, 1, 1, 2, 3) \in bookings

(* C12: an update is answered 404 only when no row has its id, at the fetch
   or at the commit: while the row is stored, neither the fetch step nor
   the commit step of an update answers 404, whichever fields the request
   supplies, none included. *)
C12_NotFoundOnlyWhenAbsent ==
    [][\A p \in Procs :
          /\ (update_booking_commit(p)
              /\ fetch_booking(req[p].booking_id) # NoRow)
               => req'[p].status # 404
          /\ (/\ req[p].pc = "idle"
              /\ req'[p].kind = "update"
              /\ fetch_booking(req'[p].booking_id) # NoRow)
               => req'[p].status # 404]_vars

(* C13: the delete statement of a cancel removes the row and is answered
   200 when the row is stored, and is answered 404 and changes nothing when
   it is not; so of two cancels of one booking that have both passed the
   permission check, the first to run its statement is answered 200 and
   the other 404, and no two cancels of one booking are both answered
   200. *)
C13_CancelOnce ==
    /\ [](\A p, q \in Procs :
            (/\ p # q
             /\ req[p].kind = "delete" /\ req[q].kind = "delete"
             /\ req[p].booking_id = req[q].booking_id
             /\ req[p].pc = "done" /\ req[p].status = 200)
              => ~(req[q].pc = "done" /\ req[q].status = 200))
    /\ [][\A p \in Procs :
            delete_booking_commit(p)
              => LET old == fetch_booking(req[p].booking_id)
                 IN  /\ old # NoRow
                          => /\ req'[p].status = 200
                             /\ bookings' = bookings \ {old}
                             /\ \A b \in bookings' :
                                   b.booking_id # req[p].booking_id
                     /\ old = NoRow
                          => /\ req'[p].status = 404
                             /\ bookings' = bookings
                     /\ \A q \in Procs \ {p} :
                           (/\ req[q].kind = "delete"
                            /\ req[q].booking_id = req[p].booking_id
                            /\ req[q].pc = "done" /\ req[q].status = 200)
                             => req'[p].status = 404]_vars

(* Two cancels of one booking had both passed the permission check; one has
   been answered 200 and the other is about to run its statement on the
   row that is gone. *)
C13_Witness ==
    \E p, q \in Procs :
        /\ p # q
        /\ req[p].kind = "delete" /\ req[q].kind = "delete"
        /\ req[p].booking_id = req[q].booking_id
        /\ req[p].pc = "done" /\ req[p].status = 200
        /\ req[q].pc = "delete_booking"
        /\ fetch_booking(req[q].booking_id) = NoRow

(* C14: once a cancel of X has been answered 200, no row with the id of X
   is stored in any later state; an update of X that runs its statement
   when the row is gone changes no row and is answered 404. *)
C14_CancelledIsTerminal ==
    /\ [](\A p \in Procs :
            (req[p].kind = "delete" /\ req[p].pc = "done" /\ req[p].status = 200)
              => fetch_booking(req[p].booking_id) = NoRow)
    /\ [][\A p \in Procs :
            (update_booking_commit(p)
             /\ fetch_booking(req[p].booking_id) = NoRow)
              => /\ bookings' = bookings
                 /\ req'[p].status = 404]_vars

(* An update fetched X, a cancel of X was then answered 200, and the update
   has been answered 404 by its statement. *)
C14_Witness ==
    \E p, q \in Procs :
        /\ req[p].kind = "delete" /\ req[p].pc = "done" /\ req[p].status = 200
        /\ req[q].kind = "update" /\ req[q].pc = "done" /\ req[q].status = 404
        /\ req[q].booking_id = req[p].booking_id
        /\ req[q].details = "Booking not found or nothing to update."

(* C15: stored ids are pairwise different and below the next value of the
   sequence, which never goes back; a create answered 201 gets the value
   of the sequence, which no row stored now or earlier has had. *)
C15_IdsUniqueNeverReused ==
    /\ [](/\ \A a, b \in bookings : a.booking_id = b.booking_id => a = b
          /\ \A b \in bookings : b.booking_id < nextId)
    /\ [][/\ nextId' >= nextId
          /\ \A p \in Procs :
               (create_booking_commit(p) /\ req'[p].status = 201)
                 => /\ req'[p].booking_id >= nextId
                    /\ req'[p].booking_id < nextId'
                    /\ \A b \in bookings : b.booking_id # req'[p].booking_id
                    /\ \E b \in bookings' : b.booking_id = req'[p].booking_id]_vars

(* A create has been answered 201 after the cancel of the booking with the
   greatest id: the new id is above the cancelled one. *)
C15_Witness ==
    \E p, q \in Procs :
        /\ req[p].kind = "delete" /\ req[p].pc = "done" /\ req[p].status = 200
        /\ req[q].kind = "create" /\ req[q].pc = "done" /\ req[q].status = 201
        /\ req[q].booking_id > req[p].booking_id
        /\ \A b \in bookings : b.booking_id <= req[q].booking_id

----------------------------------------------------------------------------
(* The check arguments that name an existing room and a window in order. *)
WellFormedCheckArgs ==
    {args \in CheckArgs : /\ args.room_id \in InitialRooms
                          /\ args.start_time \in ReadTimes
                          /\ args.end_time \in ReadTimes
                          /\ args.start_time < args.end_time}

(* C16: for an existing room and a window with start < end, before, around
   or after the current time, the availability check is answered 200 with
   available true iff no stored booking of the room has b.start < end and
   start < b.end; no availability check is answered with the future-start
   message. *)
C16_CheckAvailability ==
    [][\A r \in Readers :
          (reads[r].pc = "idle" /\ reads'[r].kind = "check")
            => /\ reads'[r].details # "Bookings must start in the future."
               /\ \A args \in WellFormedCheckArgs :
                     check_room_availability(r, args)
                       => /\ reads'[r].status = 200
                          /\ reads'[r].available
                               <=> ~\E b \in bookings :
                                      /\ b.room_id = args.room_id
                                      /\ b.start_time < args.end_time
                                      /\ args.start_time < b.end_time]_vars

(* At the first instant of the clock a check has been answered 200 with
   available false for a window that has already ended. *)
C16_Witness ==
    \E r \in Readers :
        /\ reads[r].kind = "check" /\ reads[r].pc = "done"
        /\ reads[r].status = 200 /\ ~reads[r].available
        /\ now = DayLen
        /\ reads[r].end_time <= now

(* The maximal gaps of today left by a set of bookings: the intervals
   [a, b] of the day, a < b, that no booking overlaps and that no larger
   such interval contains.  Their ends are ends of the day or of
   bookings. *)
IsFree(rows, a, b) ==
    \A x \in rows : ~(x.start_time < b /\ a < x.end_time)

MaximalGaps(rows, today) ==
    LET points == {start_of_day(today), end_of_day(today)}
                    \cup {x.start_time : x \in rows} \cup {x.end_time : x \in rows}
    IN  {f \in [start_time : points, end_time : points] :
            /\ f.start_time < f.end_time
            /\ IsFree(rows, f.start_time, f.end_time)
            /\ \A a, b \in points :
                  (a <= f.start_time /\ f.end_time <= b /\ IsFree(rows, a, b))
                    => (a = f.start_time /\ b = f.end_time)}

Ascending(intervals) ==
    \A i, j \in 1..Len(intervals) :
        i < j => intervals[i].end_time <= intervals[j].start_time

WithinToday(b, today) == date(b.start_time) = today /\ date(b.end_time) = today

(* C17: when every booking of the room starts and ends today, the status
   computed from the store lists exactly the maximal gaps of
   [start of day, end of day] that the bookings leave, each once, in
   ascending order. *)
C17_FreeIntervalsAreTheGaps ==
    [][\A r \in Readers :
          (/\ get_room_status_compute(r)
           /\ \A b \in fetch_bookings_for_room(reads[r].room_id) :
                 WithinToday(b, date(now)))
            => LET intervals == reads'[r].data.availability_intervals
                   gaps == MaximalGaps(fetch_bookings_for_room(reads[r].room_id),
                                       date(now))
               IN  /\ {intervals[i] : i \in 1..Len(intervals)} = gaps
                   /\ Len(intervals) = Cardinality(gaps)
                   /\ Ascending(intervals)]_vars

(* A status has been computed for room 1 with one booking strictly inside
   today: the two gaps before and after it. *)
C17_Witness ==
    \E r \in Readers :
        /\ reads[r].kind = "status" /\ reads[r].pc = "done" /\ reads[r].status = 200
        /\ reads[r].room_id = 1
        /\ fetch_bookings_for_room(1) = {Row(1, 1, 1, DayLen + 1, DayLen + 2)}
        /\ reads[r].data.availability_intervals
             = <<[start_time |-> DayLen, end_time |-> DayLen + 1],
                 [start_time |-> DayLen + 2, end_time |-> 2 * DayLen - 1]>>

(* C18: no free interval of a status answered 200 overlaps a booking of the
   room that is stored when the status is answered. *)
C18_FreeIntervalsAreFree ==
    [][\A r \in Readers :
          (/\ reads[r].pc # "done" /\ reads'[r].pc = "done"
           /\ reads'[r].kind = "status" /\ reads'[r].status = 200)
            => LET intervals == reads'[r].data.availability_intervals
               IN  \A i \in 1..Len(intervals) :
                     \A b \in fetch_bookings_for_room(reads'[r].room_id) :
                        ~(b.start_time < intervals[i].end_time
                          /\ intervals[i].start_time < b.end_time)]_vars

(* C19: the status computed from the store is the same as if the bookings
   of the room that do not both start and end today were not stored: its
   free intervals are the maximal gaps left by the bookings that start and
   end today, and taking a crossing booking out of the rows changes
   nothing. *)
C19_MidnightCrossingIgnored ==
    [][\A r \in Readers :
          get_room_status_compute(r)
            => LET rows == fetch_bookings_for_room(reads[r].room_id)
                   today == date(now)
                   intervals == reads'[r].data.availability_intervals
               IN  /\ {intervals[i] : i \in 1..Len(intervals)}
                        = MaximalGaps({b \in rows : WithinToday(b, today)}, today)
                   /\ \A b \in rows :
                         ~WithinToday(b, today)
                           => intervals = availability_intervals(rows \ {b}, today)]_vars

(* A status has been computed for room 1 whose bookings are one from
   yesterday into today and one from today into tomorrow: the whole day is
   reported free. *)
C19_Witness ==
    \E r \in Readers :
        /\ reads[r].kind = "status" /\ reads[r].pc = "done" /\ reads[r].status = 200
        /\ reads[r].room_id = 1
        /\ fetch_bookings_for_room(1)
             = {Row(1, 1, 1, DayLen - 1, DayLen + 1),
                Row(2, 2, 1, 2 * DayLen - 2, 2 * DayLen)}
        /\ reads[r].data.availability_intervals
             = <<[start_time |-> DayLen, end_time |-> 2 * DayLen - 1]>>

(* C20: two statuses of one room answered 200 on the same day, with no
   booking write committed since the earlier of the two requests arrived,
   carry the same free intervals. *)
C20_SameAnswerWithoutWrites ==
    \A r, q \in Readers :
        (/\ r # q
         /\ date(now) = date(DayLen)
         /\ reads[r].kind = "status" /\ reads[q].kind = "status"
         /\ reads[r].pc = "done" /\ reads[q].pc = "done"
         /\ reads[r].status = 200 /\ reads[q].status = 200
         /\ reads[r].room_id = reads[q].room_id
         /\ reads[r].writes = CommittedWrites
         /\ reads[q].writes = CommittedWrites)
          => reads[r].data.availability_intervals
               = reads[q].data.availability_intervals

----------------------------------------------------------------------------
(* C21: a status of a room answered 200 reflects every booking write on the
   room that was committed and answered before the status was: a booking
   that a create has inserted and that is still stored today is among its
   bookings and no free interval overlaps it, and a booking that a cancel
   has removed is not among its bookings. *)
C21_StatusReflectsWrites ==
    [][\A r \in Readers :
          (/\ reads[r].pc # "done" /\ reads'[r].pc = "done"
           /\ reads'[r].kind = "status" /\ reads'[r].status = 200)
            => \A p \in Procs :
                  (req[p].pc = "done" /\ req[p].status \in {200, 201})
                    => LET stored == fetch_booking(req[p].booking_id)
                           data == reads'[r].data
                           intervals == data.availability_intervals
                       IN  /\ (/\ stored # NoRow
                               /\ stored.room_id = reads'[r].room_id
                               /\ WithinToday(stored, date(now)))
                                => /\ stored \in data.bookings
                                   /\ \A i \in 1..Len(intervals) :
                                         ~(stored.start_time < intervals[i].end_time
                                           /\ intervals[i].start_time < stored.end_time)
                           /\ stored = NoRow
                                => \A b \in data.bookings :
                                      b.booking_id # req[p].booking_id]_vars

----------------------------------------------------------------------------
(* C22: a create, an update or a cancel whose statement has committed is
   answered 201, 200 or 200 and leaves the committed change in the store,
   whatever the notification step meets: the contact row missing, the email
   missing, the sender returning 202 or another status, or the sender
   raising a configuration error or any other exception. *)
C22_NotificationNeverFails ==
    [][\A p \in Procs, outcome \in NotificationOutcomes :
          /\ create_booking_respond(p, outcome)
               => LET res == create_booking(req[p].user_id, req[p].room_id,
                                            req[p].start_time, req[p].end_time)
                  IN  ~res.raised
                        => /\ req'[p].status = 201
                           /\ req'[p].booking_id = res.row.booking_id
                           /\ res.row \in bookings'
          /\ update_booking_respond(p, outcome)
               => LET res == update_booking_times(req[p].booking_id, req[p].room_id,
                                                  req[p].start_time, req[p].end_time)
                  IN  (~res.raised /\ res.row # NoRow)
                        => /\ req'[p].status = 200
                           /\ res.row \in bookings'
          /\ delete_booking_respond(p, outcome)
               => LET res == delete_booking(req[p].booking_id)
                  IN  res.rowcount = 1
                        => /\ req'[p].status = 200
                           /\ \A b \in bookings' :
                                 b.booking_id # req[p].booking_id]_vars

(* The sender raised an exception after the insert of a create and the
   configuration was missing after the statement of a cancel: the create
   has been answered 201 with its row stored, the cancel 200 with its row
   gone. *)
C22_Witness ==
    \E p, q \in Procs :
        /\ req[p].kind = "create" /\ req[p].pc = "done" /\ req[p].status = 201
        /\ email_log[p] = "sender_exception"
        /\ fetch_booking(req[p].booking_id) # NoRow
        /\ req[q].kind = "delete" /\ req[q].pc = "done" /\ req[q].status = 200
        /\ email_log[q] = "configuration_error"
        /\ fetch_booking(req[q].booking_id) = NoRow

----------------------------------------------------------------------------
(* C23: a create, an update or an availability check in which one of the
   two timestamps compared carries an offset and the other does not (for
   an update, a supplied value against the stored one as well) is answered
   400, and writes nothing. *)
C23_MixedAwarenessRejected ==
    [][/\ \A p \in Procs :
            /\ (req[p].kind = "create" /\ req[p].pc = "body" /\ req'[p].pc # "body")
                 => \A data \in TzBodies :
                       (/\ create_booking_body(p, data)
                        /\ data.room_id # None
                        /\ data.start_time # None /\ data.end_time # None
                        /\ tz_aware(data.start_time) # tz_aware(data.end_time))
                         => /\ req'[p].pc = "done"
                            /\ req'[p].status = 400
                            /\ bookings' = bookings
            /\ (req[p].kind = "update" /\ req[p].pc = "body" /\ req'[p].pc # "body")
                 => \A data \in TzUpdateBodies :
                       LET final_start == IF data.start_time # None
                                          THEN data.start_time
                                          ELSE req[p].row.start_time
                           final_end == IF data.end_time # None
                                        THEN data.end_time
                                        ELSE req[p].row.end_time
                       IN  (/\ update_booking_body(p, data)
                            /\ tz_aware(final_start) # tz_aware(final_end))
                             => /\ req'[p].pc = "done"
                                /\ req'[p].status = 400
                                /\ bookings' = bookings
       /\ \A r \in Readers :
            (reads[r].pc = "idle" /\ reads'[r].kind = "check")
              => \A args \in TzCheckArgs :
                    (/\ check_room_availability(r, args)
                     /\ tz_aware(args.start_time) # tz_aware(args.end_time))
                      => reads'[r].status = 400]_vars

----------------------------------------------------------------------------
(* C24: a listing of the bookings of a requester holds exactly the stored
   bookings of that requester, each once, ordered by start, bookings with
   the same start ordered by id; two listings of one requester taken from
   the same store are the same sequence. *)
C24_ListingOrder ==
    /\ \A r \in Readers :
          (reads[r].kind = "my_bookings" /\ reads[r].pc = "done"
           /\ reads[r].status = 200)
            => LET rows == reads[r].listing
               IN  /\ {rows[i] : i \in 1..Len(rows)}
                        = {b \in bookings : b.user_id = reads[r].user_id}
                   /\ Len(rows)
                        = Cardinality({b \in bookings : b.user_id = reads[r].user_id})
                   /\ \A i, j \in 1..Len(rows) :
                         i < j
                           => \/ rows[i].start_time < rows[j].start_time
                              \/ /\ rows[i].start_time = rows[j].start_time
                                 /\ rows[i].booking_id < rows[j].booking_id
    /\ \A r, q \in Readers :
          (/\ reads[r].kind = "my_bookings" /\ reads[q].kind = "my_bookings"
           /\ reads[r].pc = "done" /\ reads[q].pc = "done"
           /\ reads[r].status = 200 /\ reads[q].status = 200
           /\ reads[r].user_id = reads[q].user_id)
            => reads[r].listing = reads[q].listing

----------------------------------------------------------------------------
(* C25: a status request of an authenticated caller with the role regular
   is answered 403; one of a caller with the role auditor is not refused:
   it is answered from the cache, or goes on to the lookup of the room. *)
C25_RegularForbidden ==
    [][\A r \in Readers, payload \in Payloads, room_id \in StatusRooms :
          (reads[r].pc = "idle" /\ reads'[r].kind = "status"
           /\ get_room_status(r, payload, room_id))
            => /\ payload.role = "regular"
                    => (reads'[r].pc = "done" /\ reads'[r].status = 403)
               /\ payload.role = "auditor"
                    => \/ reads'[r].pc = "done" /\ reads'[r].status = 200
                       \/ reads'[r].pc = "fetch_room"]_vars

----------------------------------------------------------------------------
(* C26: when an update is answered 200, the row of its booking in the store
   right after its statement has the room, the start and the end that this
   update validated: the final values it computed from the row it fetched
   and the fields it supplied. *)
C26_UpdateWritesWhatItValidated ==
    [][\A p \in Procs :
          (update_booking_commit(p) /\ req'[p].status = 200)
            => \E b \in bookings' :
                  /\ b.booking_id = req[p].booking_id
                  /\ b.room_id = req[p].final_room_id
                  /\ b.start_time = req[p].final_start
                  /\ b.end_time = req[p].final_end]_vars

----------------------------------------------------------------------------
(* C27: when the requests run one at a time, after any sequence of creates,
   updates and cancels no two stored bookings of one room overlap. *)
C27_AtomicNoOverlap ==
    \A room_id \in InitialRooms :
        \A a, b \in fetch_bookings_for_room(room_id) :
            a.booking_id # b.booking_id
              => ~Overlaps(a.start_time, a.end_time, b.start_time, b.end_time)

(* After a create answered 201 and a later update answered 200, the
   updated booking touches, on its room, the booking the create
   inserted. *)
C27_Witness ==
    \E p \in AtomicProcs : \E a, b \in bookings :
        /\ req[p].kind = "update" /\ req[p].pc = "done" /\ req[p].status = 200
        /\ a.booking_id = req[p].booking_id
        /\ b.booking_id >= 3
        /\ a.room_id = b.room_id
        /\ a.end_time = b.start_time

----------------------------------------------------------------------------
(* A body lacks a field, has a room id that is not a positive integer, or a
   timestamp that does not parse. *)
Malformed(data) ==
    \/ data.room_id = None \/ data.start_time = None \/ data.end_time = None
    \/ data.room_id <= 0
    \/ data.start_time = Unparseable \/ data.end_time = Unparseable

(* C28: a create is answered with the first check that fails, in the order
   malformed body (400), end <= start (400, interval message), start not
   after now (400, future-start message), room missing (404), overlap
   (409), whatever later checks the body fails as well; the conflict check
   is reached only by a request that has passed the others; and a create
   that is rejected leaves the store and the sequence of ids as they
   were. *)
C28_CreateErrorOrder ==
    /\ [](\A data \in Bodies :
            LET resp == create_booking_validate(1, data)
            IN  /\ Malformed(data)
                     => /\ resp.pc = "done" /\ resp.status = 400
                        /\ resp.details \in
                              {"room_id, start_time, and end_time are required.",
                               "room_id must be a positive integer.",
                               "Invalid datetime format."}
                /\ (~Malformed(data) /\ data.end_time <= data.start_time)
                     => /\ resp.pc = "done" /\ resp.status = 400
                        /\ resp.details = "end_time must be strictly after start_time."
                /\ (/\ ~Malformed(data) /\ data.start_time < data.end_time
                    /\ data.start_time <= now)
                     => /\ resp.pc = "done" /\ resp.status = 400
                        /\ resp.details = "Bookings must start in the future."
                /\ (/\ ~Malformed(data) /\ data.start_time < data.end_time
                    /\ data.start_time > now /\ data.room_id \notin rooms)
                     => /\ resp.pc = "done" /\ resp.status = 404
                        /\ resp.details = "Room does not exist."
                /\ (/\ ~Malformed(data) /\ data.start_time < data.end_time
                    /\ data.start_time > now /\ data.room_id \in rooms)
                     => resp.pc = "has_conflict")
    /\ [](\A p \in Procs :
            (req[p].kind = "create" /\ req[p].pc = "has_conflict")
              => /\ req[p].room_id \in rooms
                 /\ req[p].start_time < req[p].end_time)
    /\ [][\A p \in Procs :
            /\ (req[p].kind = "create" /\ req[p].pc = "body" /\ req'[p] # req[p])
                 => /\ req'[p].pc \in {"done", "has_conflict"}
                    /\ req'[p].pc = "done" => req'[p].status \in {400, 404}
                    /\ bookings' = bookings /\ nextId' = nextId
            /\ (/\ req[p].kind = "create" /\ req[p].pc = "has_conflict"
                /\ req'[p].pc = "done")
                 => /\ req'[p].status = 409
                    /\ bookings' = bookings /\ nextId' = nextId]_vars

(* When the clock has reached its last value, one create has been answered
   with the future-start message and another with 404 for its room. *)
C28_Witness ==
    \E p, q \in Procs :
        /\ now = MaxNow
        /\ req[p].kind = "create" /\ req[p].pc = "done" /\ req[p].status = 400
        /\ req[p].details = "Bookings must start in the future."
        /\ req[q].kind = "create" /\ req[q].pc = "done" /\ req[q].status = 404
        /\ req[q].details = "Room does not exist."

----------------------------------------------------------------------------
(* C29: an authorised status request is answered from the cache exactly
   when the room has an entry and the current time is strictly before the
   entry's expiry, and then with the entry's data, the cache left alone;
   otherwise it goes on to the store.  A request that computes the status
   from the store replaces the entry: its data are the payload computed
   from the room's bookings and its expiry is the time of storing plus the
   time to live.  No entry expires later than the time to live from now. *)
C29_ServedOnlyBeforeExpiry ==
    /\ [](\A room \in StatusRooms :
            room_status_cache[room] # NoEntry
              => room_status_cache[room].expires_at <= now + StatusCacheTtl)
    /\ [][\A r \in ReadSpecReaders :
            /\ (/\ reads[r].pc = "idle" /\ reads'[r].kind = "status"
                /\ reads'[r].status \notin {401, 403})
                 => LET entry == room_status_cache[reads'[r].room_id]
                    IN  IF entry # NoEntry /\ now < entry.expires_at
                        THEN /\ reads'[r].pc = "done" /\ reads'[r].status = 200
                             /\ reads'[r].data = entry.data
                             /\ room_status_cache' = room_status_cache
                        ELSE reads'[r].pc = "fetch_room"
            /\ (/\ reads[r].kind = "status"
                /\ reads[r].pc = "fetch_bookings_for_room"
                /\ reads'[r].pc = "done")
                 => LET room == reads[r].room_id
                        fresh == response_payload(room,
                                     {b \in bookings : b.room_id = room}, date(now))
                    IN  /\ reads'[r].status = 200 /\ reads'[r].data = fresh
                        /\ room_status_cache'[room] =
                              [data |-> fresh, expires_at |-> now + StatusCacheTtl]]_vars

(* A status request that arrived at the very instant the entry of its room
   expired is on its way to the store. *)
C29_Witness ==
    \E r \in ReadSpecReaders :
        /\ reads[r].kind = "status"
        /\ reads[r].pc \in {"fetch_room", "fetch_bookings_for_room"}
        /\ room_status_cache[reads[r].room_id] # NoEntry
        /\ room_status_cache[reads[r].room_id].expires_at = now

----------------------------------------------------------------------------
(* C30: once the deletion of room 1 has been answered 200, no status or
   get-room request for room 1 that arrives afterwards is answered 200,
   also when another read of the room was in flight during the deletion. *)
C30_NoReadAfterDelete ==
    \A r \in Readers :
        (/\ reads[r].pc = "done" /\ reads[r].kind \in {"status", "room"}
         /\ reads[r].room_id = 1
         /\ reads[r].writes >= 1)
          => reads[r].status # 200

----------------------------------------------------------------------------
(* C31: every stored booking references a room that exists.  A create or
   an update whose statement runs when its room has been deleted, after the
   request passed room_exists, writes no row; and a deletion of a room that
   is answered 200 removes the room and every booking of it. *)
C31_BookingsReferenceRooms ==
    /\ [](\A b \in bookings : b.room_id \in rooms)
    /\ [][\A p \in Procs :
            /\ (/\ req[p].kind = "create" /\ req[p].pc = "create_booking"
                /\ req'[p].pc = "done" /\ req[p].room_id \notin rooms)
                 => /\ bookings' = bookings
                    /\ req'[p].status = 500
            /\ (/\ req[p].kind = "update" /\ req[p].pc = "update_booking_times"
                /\ req'[p].pc = "done" /\ req[p].final_room_id \notin rooms)
                 => /\ bookings' = bookings
                    /\ req'[p].status \in {404, 500}
            /\ (/\ req[p].kind = "delete_room" /\ req[p].pc = "delete_room"
                /\ req'[p].pc = "done" /\ req'[p].status = 200)
                 => /\ rooms' = rooms \ {req[p].room_id}
                    /\ bookings' = {b \in bookings : b.room_id # req[p].room_id}]_vars

(* A create or an update that had passed its checks was answered 500 by
   the foreign key because the other request deleted its room. *)
C31_Witness ==
    \E p, q \in Procs :
        /\ req[p].pc = "done" /\ req[p].kind \in {"create", "update"}
        /\ req[p].status = 500
        /\ req[q].pc = "done" /\ req[q].kind = "delete_room"
        /\ req[q].status = 200

----------------------------------------------------------------------------
(* C32: the list that fetch_bookings_for_room(room_id) of the bookings
   service returns holds exactly the stored bookings of the room, each
   once, with starts that do not decrease. *)
C32_FetchBookingsForRoom ==
    \A r \in Readers :
        (reads[r].pc = "done" /\ reads[r].kind = "fetch_bookings_for_room")
          => LET rows == {b \in bookings : b.room_id = reads[r].room_id}
                 listing == reads[r].listing
             IN  /\ Len(listing) = Cardinality(rows)
                 /\ \A i \in 1..Len(listing) :
                       /\ "booking_id" \in DOMAIN listing[i]
                       /\ listing[i] \in rows
                 /\ \A b \in rows : \E i \in 1..Len(listing) : listing[i] = b
                 /\ \A i, j \in 1..Len(listing) :
                       i < j => listing[i].start_time <= listing[j].start_time

====
